---------------------------- MODULE Spec2Model ----------------------------
(***************************************************************************)
(* A model of cougr's control-flow handling:                               *)
(*   - construct_cougr_graph (frameworks/tensorflow.py): wiring of the     *)
(*     imported ops and the recovery of one ControlBlockOp per control op; *)
(*   - ControlBlockOp (ops/ctrl_ops.py): sources, sinks, inputs, outputs   *)
(*     and calcAlgFlops;                                                   *)
(*   - the propagateShapes / canVisit rules of the control-flow ops;       *)
(*   - the builder functions constant and concat (api/ops.py).             *)
(***************************************************************************)
EXTENDS Integers, Sequences, FiniteSets, TLC

VARIABLES
    \* ---- construct_cougr_graph ----
    pc,                 \* position in construct_cougr_graph
    num_ops,            \* number of ops of the imported graph
    wire_idx,           \* next op whose inputs are hooked up (lines 194-199)
    inputs,             \* op -> its ordered input tensors (Op._inputs)
    consumer_order,     \* the order in which the consumers dicts enumerate
    control_ops,        \* list of the control ops found (lines 220-224)
    ctrl_idx,           \* index of ctrl_op in control_ops (line 225)
    visited_ops,        \* line 230
    frontier_ops,       \* line 231
    bwd_frontier_ops,   \* line 241
    fwd_frontier_ops,   \* line 260
    bwd_visited,        \* history: visited_ops when the backward loop ended
    fwd_seed,           \* history: fwd_frontier_ops when the forward loop began
    blocks,             \* the ControlBlockOps added to the graph (line 286)
    returned,           \* what the caller of construct_cougr_graph receives
    failure,            \* the exception that left construct_cougr_graph, if any
    \* ---- MergeOp.canVisit ----
    cv_inputs,          \* self._inputs of the merge op
    cv_visited,         \* the argument visited_ops
    cv_result,          \* the value returned, once the call was made
    \* ---- propagateShapes of the control-flow ops ----
    ps_kind,            \* class of the op
    ps_name,            \* self._name
    ps_in,              \* shapes of self._inputs
    ps_out_before,      \* shapes of self._outputs when propagateShapes is called
    ps_out,             \* shapes of self._outputs
    ps_done,            \* propagateShapes was called and has ended
    ps_failure,         \* the exception it raised, if any
    \* ---- ControlBlockOp.calcAlgFlops ----
    fl_block,           \* two ControlBlockOps: name and class of the root op
    fl_members,         \* the member ops both hold
    fl_out,             \* per block: the outcome of calcAlgFlops, once called
    \* ---- api.ops.concat ----
    bg_graphs,          \* graph -> the names of the ops registered in it
    bg_before,          \* history: bg_graphs when concat was called
    bg_call,            \* the arguments of the call
    bg_out              \* the outcome of the call, once made

rvars == <<pc, num_ops, consumer_order, wire_idx, inputs, control_ops, ctrl_idx, visited_ops,
           frontier_ops, bwd_frontier_ops, fwd_frontier_ops, bwd_visited,
           fwd_seed, blocks, returned, failure>>

cvars == <<cv_inputs, cv_visited, cv_result>>

svars == <<ps_kind, ps_name, ps_in, ps_out_before, ps_out, ps_done, ps_failure>>

fvars == <<fl_block, fl_members, fl_out>>

bvars == <<bg_graphs, bg_before, bg_call, bg_out>>

vars == <<rvars, cvars, svars, fvars, bvars>>

\* What the steps of one part leave alone.
notRecovery == <<cvars, svars, fvars, bvars>>
notCanVisit == <<rvars, svars, fvars, bvars>>
notShapes == <<rvars, cvars, fvars, bvars>>
notFlops == <<rvars, cvars, svars, bvars>>
notBuilder == <<rvars, cvars, svars, fvars>>

(***************************************************************************)
(* The imported graph: the ops of tf_graph._nodes_by_name in their order.  *)
(***************************************************************************)
\* Largest number of ops of an imported graph (a prefix of the op table below).
NumOps == 11

\* graph.opsByName of the flat graph, in insertion order.
Ops == 1..num_ops

\* returned and failure hold at most one value: nothing was returned or raised
\* while they are empty.
NoGraph == <<>>
NoFailure == <<>>

\* tf_op.name of the ops of the imported graph.
OpName(op) ==
    CASE op = 1 -> "x0"
      [] op = 2 -> "enter"
      [] op = 3 -> "merge"
      [] op = 4 -> "cond"
      [] op = 5 -> "switch"
      [] op = 6 -> "next"
      [] op = 7 -> "body"
      [] op = 8 -> "exit"
      [] op = 9 -> "out"
      [] op = 10 -> "cond2"
      [] op = 11 -> "switch2"
      [] op = 12 -> "tail"
      [] OTHER -> "op"

\* tf_op.type of the ops of the imported graph.
TfType(op) ==
    CASE op = 1 -> "Placeholder"
      [] op = 2 -> "Enter"
      [] op = 3 -> "Merge"
      [] op = 4 -> "LoopCond"
      [] op = 5 -> "Switch"
      [] op = 6 -> "NextIteration"
      [] op = 7 -> "Add"
      [] op = 8 -> "Exit"
      [] op = 9 -> "Identity"
      [] op = 10 -> "LoopCond"
      [] op = 11 -> "Switch"
      [] op = 12 -> "Tile"
      [] OTHER -> "Tile"

\* TF_OP_TO_COUGR, restricted to the types of the op table; a type that is
\* not in the table maps to UnknownOp (lines 158-164).
TF_OP_TO_COUGR(type) ==
    CASE type = "Placeholder" -> "PlaceholderOp"
      [] type = "Add" -> "AddOp"
      [] type = "Enter" -> "EnterOp"
      [] type = "Merge" -> "MergeOp"
      [] type = "LoopCond" -> "LoopConditionOp"
      [] type = "Switch" -> "SwitchOp"
      [] type = "NextIteration" -> "NextIterationOp"
      [] type = "Identity" -> "IdentityOp"
      [] type = "Exit" -> "ExitOp"
      [] OTHER -> "UnknownOp"

\* The class of the CouGr op created for a tf op (line 167).
KindOf(op) == TF_OP_TO_COUGR(TfType(op))

\* len(tf_op.outputs): Switch and Merge have two outputs, the others one.
NumOutputs(op) == IF TfType(op) \in {"Switch", "Merge"} THEN 2 ELSE 1

\* A tensor is named by its producer and its output index (tf "name:idx").
Tensor(op, idx) == <<op, idx>>

Producer(t) == t[1]

\* op.outputs, in order (lines 170-184).
Outputs(op) == [i \in 1..NumOutputs(op) |-> Tensor(op, i - 1)]

\* tf_op.inputs of each op: the wirings the imported graphs range over.
TfInputs(op) ==
    CASE op = 1 -> {<<>>}
      [] op = 2 -> {<<Tensor(1, 0)>>}
      [] op = 3 -> {<<Tensor(2, 0), Tensor(6, 0)>>, <<Tensor(1, 0), Tensor(6, 0)>>,
                    <<Tensor(2, 0)>>}
      [] op = 4 -> {<<Tensor(3, 0)>>, <<Tensor(1, 0)>>}
      [] op = 5 -> {<<Tensor(2, 0), Tensor(4, 0)>>, <<Tensor(3, 0), Tensor(4, 0)>>,
                    <<Tensor(10, 0), Tensor(4, 0)>>, <<Tensor(3, 0), Tensor(1, 0)>>}
      [] op = 6 -> {<<Tensor(5, 1)>>, <<Tensor(7, 0)>>}
      [] op = 7 -> {<<Tensor(5, 1)>>, <<Tensor(4, 0)>>, <<Tensor(1, 0)>>,
                    <<Tensor(5, 1), Tensor(9, 0)>>}
      [] op = 8 -> {<<Tensor(5, 0)>>, <<Tensor(7, 0)>>}
      [] op = 9 -> {<<Tensor(8, 0)>>, <<Tensor(3, 1)>>, <<Tensor(10, 0)>>}
      [] op = 10 -> {<<Tensor(1, 0)>>, <<Tensor(7, 0)>>, <<Tensor(9, 0)>>}
      [] op = 11 -> {<<Tensor(1, 0), Tensor(10, 0)>>, <<Tensor(2, 0), Tensor(10, 0)>>,
                     <<Tensor(1, 0), Tensor(1, 0)>>}
      [] OTHER -> {<<Tensor(11, 0)>>, <<Tensor(8, 0)>>}

\* The input lists whose tensors all exist (the assertion of line 197).
KnownInputs(op) ==
    {ins \in TfInputs(op) : \A i \in 1..Len(ins) : Producer(ins[i]) \in Ops}

(***************************************************************************)
(* Tensor.consumers: a dict keyed by consumer name, filled by              *)
(* graph.addInputToOp in the order the ops are hooked up (lines 194-199).  *)
(***************************************************************************)
RECURSIVE SortedSeq(_)
SortedSeq(S) ==
    IF S = {} THEN <<>>
    ELSE LET m == CHOOSE x \in S : \A y \in S : x <= y
         IN <<m>> \o SortedSeq(S \ {m})

ConsumerSet(t) == {op \in Ops : \E i \in 1..Len(inputs[op]) : inputs[op][i] = t}

NumOrders == 3

\* The place of an op in the enumeration of a consumers dict: order 1 is
\* the order in which the ops were hooked up, order 2 its reverse, the
\* further orders scatter the ops.
OrderKey(op) ==
    CASE consumer_order = 1 -> op
      [] consumer_order = 2 -> 0 - op
      [] consumer_order = 3 -> (op * 3) % (NumOps + 2)
      [] OTHER -> (op * 5) % (NumOps + 2)

EnumeratedBefore(a, b) ==
    OrderKey(a) < OrderKey(b) \/ (OrderKey(a) = OrderKey(b) /\ a < b)

RECURSIVE Enumerate(_)
\* The ops of a set in the order of enumeration.
Enumerate(S) ==
    IF S = {} THEN <<>>
    ELSE LET m == CHOOSE x \in S : \A y \in S \ {x} : EnumeratedBefore(x, y)
         IN <<m>> \o Enumerate(S \ {m})

\* A plausible slip: only the first consumer of a tensor is taken.
Consumers_FirstOnly(t) ==
    IF ConsumerSet(t) = {} THEN <<>> ELSE <<Head(Enumerate(ConsumerSet(t)))>>

\* out_tensor.consumers.values()
Consumers(t) == Enumerate(ConsumerSet(t))

RECURSIVE ConsumersFrom(_, _)
\* The consumers of op's outputs from output i on, output by output.
ConsumersFrom(op, i) ==
    IF i > NumOutputs(op) THEN <<>>
    ELSE Consumers(Tensor(op, i - 1)) \o ConsumersFrom(op, i + 1)

\* for out_tensor in op.outputs: l.extend(out_tensor.consumers.values())
OutputConsumers(op) == ConsumersFrom(op, 1)

RECURSIVE ConsumersOfAll(_)
\* The same, over a list of ops (lines 261-263).
ConsumersOfAll(ops) ==
    IF ops = <<>> THEN <<>>
    ELSE OutputConsumers(Head(ops)) \o ConsumersOfAll(Tail(ops))

\* for in_tensor in op.inputs: l.append(in_tensor.producer)
InputProducers(op) == [i \in 1..Len(inputs[op]) |-> Producer(inputs[op][i])]

isControlOp(op) == KindOf(op) = "LoopConditionOp"

isinstance(op, class) == KindOf(op) = class


(***************************************************************************)
(* ControlBlockOp (ops/ctrl_ops.py).                                       *)
(***************************************************************************)
\* findAllSourcesSinks, the source half: a member with an input whose
\* producer is not a member.
findSources(members) ==
    {op \in members :
        \E i \in 1..Len(inputs[op]) : Producer(inputs[op][i]) \notin members}

\* A plausible slip: a sink needs an output with a consumer, all of whose
\* consumers are outside.
findSinks_OnlyOutside(members) ==
    {op \in members :
        \E i \in 1..NumOutputs(op) :
            /\ ConsumerSet(Tensor(op, i - 1)) # {}
            /\ ConsumerSet(Tensor(op, i - 1)) \cap members = {}}

\* findAllSourcesSinks, the sink half: a member with an output that has a
\* consumer which is not a member.
findSinks(members) ==
    {op \in members :
        \E i \in 1..NumOutputs(op) :
            \E consumer \in ConsumerSet(Tensor(op, i - 1)) : consumer \notin members}

\* Graph.addOp, as the constructor uses it: registers the op in _ops_by_name.
addOp(ops_by_name, op) == ops_by_name \cup {op}

RECURSIVE addOps(_, _)
\* for op in ops_list: self.addOp(op)
addOps(ops_by_name, ops_list) ==
    IF ops_list = <<>> THEN ops_by_name
    ELSE addOps(addOp(ops_by_name, Head(ops_list)), Tail(ops_list))

\* ControlBlockOp.__init__
ControlBlockOp(name, root_op, ops_list) ==
    LET members == addOps({}, ops_list)
    IN [name |-> name,
        root_op |-> root_op,
        ops_by_name |-> members,
        sources |-> findSources(members),
        sinks |-> findSinks(members)]

\* ControlBlockOp.inputs: every input tensor of every source op.
BlockInputs(b) ==
    UNION {{inputs[src][i] : i \in 1..Len(inputs[src])} : src \in b.sources}

\* ControlBlockOp.outputs: every output tensor of every sink op that has
\* at least one consumer (the consumer loop adds the tensor once per consumer).
BlockOutputs(b) ==
    UNION {{Tensor(snk, i - 1) : i \in
                {j \in 1..NumOutputs(snk) : ConsumerSet(Tensor(snk, j - 1)) # {}}} :
           snk \in b.sinks}

\* '{}_block'.format(ctrl_op.name)
BlockName(ctrl_op) == OpName(ctrl_op) \o "_block"


(***************************************************************************)
(* construct_cougr_graph (frameworks/tensorflow.py).                       *)
(***************************************************************************)
\* An exception: its class, the parts its message is formatted from, and
\* the op the failing check was looking at.
Raise(exc, msg, op) == <<[exc |-> exc, msg |-> msg, op |-> op]>>

\* The state after the ops were created (lines 154-191): nothing is wired.
RecoveryIdle ==
    /\ pc = "idle"
    /\ num_ops = 0
    /\ consumer_order = 1
    /\ wire_idx = 1
    /\ inputs = <<>>
    /\ control_ops = <<>>
    /\ ctrl_idx = 1
    /\ visited_ops = {}
    /\ frontier_ops = <<>>
    /\ bwd_frontier_ops = <<>>
    /\ fwd_frontier_ops = <<>>
    /\ bwd_visited = {}
    /\ fwd_seed = <<>>
    /\ blocks = <<>>
    /\ returned = NoGraph
    /\ failure = NoFailure

CanVisitIdle ==
    /\ cv_inputs = <<>>
    /\ cv_visited = {}
    /\ cv_result = <<>>

ShapesIdle ==
    /\ ps_kind = "IdleOp"
    /\ ps_name = ""
    /\ ps_in = <<>>
    /\ ps_out_before = <<>>
    /\ ps_out = <<>>
    /\ ps_done = FALSE
    /\ ps_failure = NoFailure

FlopsIdle ==
    /\ fl_block = <<>>
    /\ fl_members = <<>>
    /\ fl_out = <<>>

BuilderIdle ==
    /\ bg_graphs = <<>>
    /\ bg_before = <<>>
    /\ bg_call = <<>>
    /\ bg_out = <<>>

Init ==
    /\ BuilderIdle
    /\ CanVisitIdle
    /\ ShapesIdle
    /\ FlopsIdle
    /\ pc = "wire"
    /\ num_ops \in 6..NumOps
    /\ consumer_order = 1
    /\ wire_idx = 1
    /\ inputs = [op \in Ops |-> <<>>]
    /\ control_ops = <<>>
    /\ ctrl_idx = 1
    /\ visited_ops = {}
    /\ frontier_ops = <<>>
    /\ bwd_frontier_ops = <<>>
    /\ fwd_frontier_ops = <<>>
    /\ bwd_visited = {}
    /\ fwd_seed = <<>>
    /\ blocks = <<>>
    /\ returned = NoGraph
    /\ failure = NoFailure

\* Lines 194-199: hook up the inputs of the next op.
HookUpInputs ==
    /\ pc = "wire"
    /\ UNCHANGED notRecovery
    /\ \E ins \in KnownInputs(wire_idx) :
           inputs' = [inputs EXCEPT ![wire_idx] = ins]
    /\ wire_idx' = wire_idx + 1
    /\ pc' = IF wire_idx = num_ops THEN "scan" ELSE "wire"
    /\ UNCHANGED <<num_ops, consumer_order, control_ops, ctrl_idx, visited_ops, frontier_ops,
                   bwd_frontier_ops, fwd_frontier_ops, bwd_visited, fwd_seed,
                   blocks, returned, failure>>

\* Lines 220-224: collect the control ops, in the graph's op order.
FindControlOps ==
    /\ pc = "scan"
    /\ UNCHANGED notRecovery
    /\ control_ops' = SortedSeq({op \in Ops : isControlOp(op)})
    /\ ctrl_idx' = 1
    /\ pc' = "seed"
    /\ UNCHANGED <<num_ops, consumer_order, wire_idx, inputs, visited_ops, frontier_ops,
                   bwd_frontier_ops, fwd_frontier_ops, bwd_visited, fwd_seed,
                   blocks, returned, failure>>

ctrl_op == control_ops[ctrl_idx]

\* The consumers of ctrl_op's outputs that fail the assertion of line 234.
NonSwitchConsumers(op) ==
    SelectSeq(OutputConsumers(op), LAMBDA c : ~isinstance(c, "SwitchOp"))

\* Lines 229-235 and 241: start the walk of the next control op.
SeedFrontier ==
    /\ pc = "seed"
    /\ UNCHANGED notRecovery
    /\ ctrl_idx <= Len(control_ops)
    /\ IF NonSwitchConsumers(ctrl_op) # <<>>
       THEN /\ failure' = Raise("AssertionError", <<>>,
                                Head(NonSwitchConsumers(ctrl_op)))
            /\ pc' = "failed"
            /\ UNCHANGED <<visited_ops, frontier_ops, bwd_frontier_ops>>
       ELSE /\ visited_ops' = {ctrl_op}
            /\ frontier_ops' = OutputConsumers(ctrl_op)
            /\ bwd_frontier_ops' = OutputConsumers(ctrl_op)
            /\ pc' = "bwd"
            /\ UNCHANGED failure
    /\ UNCHANGED <<num_ops, consumer_order, wire_idx, inputs, control_ops, ctrl_idx, fwd_frontier_ops,
                   bwd_visited, fwd_seed, blocks, returned>>

\* Line 244: the op taken from the backward frontier was visited before.
AlreadyVisited(op) == op \in visited_ops

\* A plausible slip: the forward walk never skips an op it has visited.
AlreadyVisitedForward_Never(op) == FALSE

\* Line 266: the op taken from the forward frontier was visited before.
AlreadyVisitedForward(op) == op \in visited_ops

\* A plausible slip: the backward walk goes on through EnterOps.
StopsBackward_NextIterationOnly(op) == isinstance(op, "NextIterationOp")

\* Lines 249-250: the backward walk does not go past these ops.
StopsBackward(op) == isinstance(op, "EnterOp") \/ isinstance(op, "NextIterationOp")

\* Lines 242-256: one iteration of the backward loop.
BackwardStep ==
    /\ pc = "bwd"
    /\ UNCHANGED notRecovery
    /\ bwd_frontier_ops # <<>>
    /\ LET next_op == Head(bwd_frontier_ops)
           rest == Tail(bwd_frontier_ops)
       IN IF AlreadyVisited(next_op)
          THEN /\ bwd_frontier_ops' = rest
               /\ UNCHANGED <<visited_ops, frontier_ops, pc, failure>>
          ELSE IF isControlOp(next_op)
          THEN /\ failure' = Raise("AssertionError",
                   <<"CouGr Framework(TF): Should be no up-stream control blocks!">>,
                   next_op)
               /\ pc' = "failed"
               /\ bwd_frontier_ops' = rest
               /\ UNCHANGED <<visited_ops, frontier_ops>>
          ELSE /\ visited_ops' = visited_ops \cup {next_op}
               /\ IF StopsBackward(next_op)
                  THEN /\ bwd_frontier_ops' = rest
                       /\ UNCHANGED frontier_ops
                  ELSE /\ frontier_ops' =
                              IF isinstance(next_op, "MergeOp")
                              THEN Append(frontier_ops, next_op)
                              ELSE frontier_ops
                       /\ bwd_frontier_ops' = rest \o InputProducers(next_op)
               /\ UNCHANGED <<pc, failure>>
    /\ UNCHANGED <<num_ops, consumer_order, wire_idx, inputs, control_ops, ctrl_idx, fwd_frontier_ops,
                   bwd_visited, fwd_seed, blocks, returned>>

\* A plausible slip: the forward walk starts from the merge ops alone.
ForwardSeedOps_MergesOnly ==
    SelectSeq(frontier_ops, LAMBDA op : isinstance(op, "MergeOp"))

\* Line 261: the ops whose output consumers seed the forward walk.
ForwardSeedOps == frontier_ops

\* Lines 260-263: the backward loop is over; seed the forward frontier.
SeedForward ==
    /\ pc = "bwd"
    /\ UNCHANGED notRecovery
    /\ bwd_frontier_ops = <<>>
    /\ fwd_frontier_ops' = ConsumersOfAll(ForwardSeedOps)
    /\ fwd_seed' = fwd_frontier_ops'
    /\ bwd_visited' = visited_ops
    /\ pc' = "fwd"
    /\ UNCHANGED <<num_ops, consumer_order, wire_idx, inputs, control_ops, ctrl_idx, visited_ops,
                   frontier_ops, bwd_frontier_ops, blocks, returned, failure>>

\* A plausible slip: the forward walk goes on through ExitOps.
StopsForward_Never(op) == FALSE

\* Lines 273-274: the forward walk does not go past these ops.
StopsForward(op) == isinstance(op, "ExitOp")

\* A plausible slip: the forward walk takes a control op for an ordinary op.
NestedForward_Never(op) == FALSE

\* Line 268: the forward walk raises on these ops.
NestedForward(op) == isControlOp(op)

\* Lines 264-276: one iteration of the forward loop.
ForwardStep ==
    /\ pc = "fwd"
    /\ UNCHANGED notRecovery
    /\ fwd_frontier_ops # <<>>
    /\ LET next_op == Head(fwd_frontier_ops)
           rest == Tail(fwd_frontier_ops)
       IN IF AlreadyVisitedForward(next_op)
          THEN /\ fwd_frontier_ops' = rest
               /\ UNCHANGED <<visited_ops, pc, failure>>
          ELSE IF NestedForward(next_op)
          THEN /\ failure' = Raise("NotImplementedError",
                   <<"CouGr Framework(TF): Need nested control blocks">>,
                   next_op)
               /\ pc' = "failed"
               /\ fwd_frontier_ops' = rest
               /\ UNCHANGED visited_ops
          ELSE /\ visited_ops' = visited_ops \cup {next_op}
               /\ fwd_frontier_ops' =
                      IF StopsForward(next_op)
                      THEN rest
                      ELSE rest \o OutputConsumers(next_op)
               /\ UNCHANGED <<pc, failure>>
    /\ UNCHANGED <<num_ops, consumer_order, wire_idx, inputs, control_ops, ctrl_idx, frontier_ops,
                   bwd_frontier_ops, bwd_visited, fwd_seed, blocks, returned>>

\* Lines 284-286: the forward loop is over; build the ControlBlockOp from
\* the visited ops and add it to the graph, then go on to the next control op.
AddControlBlock ==
    /\ pc = "fwd"
    /\ UNCHANGED notRecovery
    /\ fwd_frontier_ops = <<>>
    /\ blocks' = Append(blocks,
                        ControlBlockOp(BlockName(ctrl_op), ctrl_op,
                                       SortedSeq(visited_ops)))
    /\ ctrl_idx' = ctrl_idx + 1
    /\ pc' = "seed"
    /\ UNCHANGED <<num_ops, consumer_order, wire_idx, inputs, control_ops, visited_ops, frontier_ops,
                   bwd_frontier_ops, fwd_frontier_ops, bwd_visited, fwd_seed,
                   returned, failure>>

\* Line 288: every control op was handled; the graph is returned.
ReturnGraph ==
    /\ pc = "seed"
    /\ UNCHANGED notRecovery
    /\ ctrl_idx > Len(control_ops)
    /\ returned' = <<[ops |-> Ops, blocks |-> blocks]>>
    /\ pc' = "done"
    /\ UNCHANGED <<num_ops, consumer_order, wire_idx, inputs, control_ops, ctrl_idx, visited_ops,
                   frontier_ops, bwd_frontier_ops, fwd_frontier_ops, bwd_visited,
                   fwd_seed, blocks, failure>>

Next ==
    \/ HookUpInputs
    \/ FindControlOps
    \/ SeedFrontier
    \/ BackwardStep
    \/ SeedForward
    \/ ForwardStep
    \/ AddControlBlock
    \/ ReturnGraph

Spec == Init /\ [][Next]_vars

\* The two while loops are sequential code: an iteration that can be taken
\* is taken.
SpecLive == Init /\ [][Next]_vars /\ WF_vars(BackwardStep) /\ WF_vars(ForwardStep)

\* The same function on a graph whose consumers dicts enumerate in any of
\* the orders: the order of a dict's values follows the order of the ops in
\* tf_graph._nodes_by_name, which the caller decides.
InitOrders ==
    /\ BuilderIdle
    /\ CanVisitIdle
    /\ ShapesIdle
    /\ FlopsIdle
    /\ pc = "wire"
    /\ num_ops \in 6..NumOps
    /\ consumer_order \in 1..NumOrders
    /\ wire_idx = 1
    /\ inputs = [op \in Ops |-> <<>>]
    /\ control_ops = <<>>
    /\ ctrl_idx = 1
    /\ visited_ops = {}
    /\ frontier_ops = <<>>
    /\ bwd_frontier_ops = <<>>
    /\ fwd_frontier_ops = <<>>
    /\ bwd_visited = {}
    /\ fwd_seed = <<>>
    /\ blocks = <<>>
    /\ returned = NoGraph
    /\ failure = NoFailure

SpecOrders == InitOrders /\ [][Next]_vars



(***************************************************************************)
(* MergeOp.canVisit (ops/ctrl_ops.py).                                     *)
(***************************************************************************)
\* Largest number of inputs of the merge op, and number of ops that can
\* produce them.
MaxMergeInputs == 2
NumProducers == 3

\* The input lists of the merge op: each input is an output of a producer.
MergeInputLists ==
    UNION {[1..n -> {Tensor(op, 0) : op \in 1..NumProducers}] :
           n \in 0..MaxMergeInputs}

\* A plausible slip: the rule of the other ops, every producer visited.
canVisit_AllReady(in_tensors, visited) ==
    \A i \in 1..Len(in_tensors) : Producer(in_tensors[i]) \in visited

\* MergeOp.canVisit: the input tensors whose producer was visited are
\* collected, and the op can be visited when there is at least one.
canVisit(in_tensors, visited) ==
    LET ready_in_tensors ==
            {in_tensors[i] : i \in
                {j \in 1..Len(in_tensors) : Producer(in_tensors[j]) \in visited}}
    IN Cardinality(ready_in_tensors) > 0

InitCanVisit ==
    /\ BuilderIdle
    /\ RecoveryIdle
    /\ ShapesIdle
    /\ FlopsIdle
    /\ cv_inputs \in MergeInputLists
    /\ cv_visited \in SUBSET (1..NumProducers)
    /\ cv_result = <<>>

\* A call of canVisit on the merge op.
CallCanVisit ==
    /\ cv_result = <<>>
    /\ cv_result' = <<canVisit(cv_inputs, cv_visited)>>
    /\ UNCHANGED <<cv_inputs, cv_visited>>
    /\ UNCHANGED notCanVisit

NextCanVisit == CallCanVisit

SpecCanVisit == InitCanVisit /\ [][NextCanVisit]_vars


(***************************************************************************)
(* TensorShape, as the control-flow ops use it.                            *)
(***************************************************************************)
\* Largest rank and largest dimension size of the shapes.
MaxRank == 2
MaxDim == 2

\* A dimension is unknown (None) or a known size.
NoneDim == <<>>
Dim(d) == <<d>>

Dims == {NoneDim} \cup {Dim(d) : d \in 1..MaxDim}

\* A shape is the sequence of its dimensions; the empty one is a scalar.
Shapes == UNION {[1..r -> Dims] : r \in 0..MaxRank}

ScalarShape == <<>>

\* TensorShape.isUnknown: some dimension is unknown.
isUnknown(shape) == \E i \in 1..Len(shape) : shape[i] = NoneDim

\* TensorShape.isScalar: rank 0.
isScalar(shape) == Len(shape) = 0

\* TensorShape.__eq__: the same rank and, position by position, the same
\* known size; an unknown dimension equals nothing.
ShapeEq(a, b) ==
    /\ Len(a) = Len(b)
    /\ \A i \in 1..Len(a) : a[i] # NoneDim /\ b[i] # NoneDim /\ a[i] = b[i]

\* TensorShape.canBroadcastTogether: aligned from the last dimension, two
\* dimensions agree when they are equal, or one is 1, or one is unknown.
canBroadcastTogether(a, b) ==
    \A k \in 1..(IF Len(a) < Len(b) THEN Len(a) ELSE Len(b)) :
        LET da == a[Len(a) - k + 1]
            db == b[Len(b) - k + 1]
        IN da = db \/ da = Dim(1) \/ db = Dim(1) \/ da = NoneDim \/ db = NoneDim

\* TensorShape.mergeShape on shapes of one rank without conflicting known
\* sizes: the unknown dimensions of self are filled from other.
mergeShape(self, other) ==
    [i \in 1..Len(self) |-> IF self[i] = NoneDim THEN other[i] ELSE self[i]]

(***************************************************************************)
(* propagateShapes of the control-flow ops (ops/ctrl_ops.py).              *)
(***************************************************************************)
\* The outcome of a call: the output shapes it leaves and what it raised.
Returns(outs) == [outputs |-> outs, failure |-> NoFailure]
Raises(outs, exc, msg) == [outputs |-> outs, failure |-> <<[exc |-> exc, msg |-> msg]>>]

\* EnterOp.propagateShapes
EnterPropagate(name, ins, outs) ==
    IF Len(ins) # 1 THEN Raises(outs, "AssertionError", <<>>)
    ELSE IF Len(outs) # 1 THEN Raises(outs, "AssertionError", <<>>)
    ELSE IF ~isUnknown(ins[1])
    THEN IF ~ShapeEq(ins[1], outs[1])
         THEN Raises(outs, "NotImplementedError", <<"EnterOp propagateShapes ", name>>)
         ELSE Returns(<<mergeShape(outs[1], ins[1])>>)
    ELSE Raises(outs, "NotImplementedError",
                <<"EnterOp ", name, " propagateShapes unknown input shape">>)

\* ExitOp.propagateShapes
ExitPropagate(name, ins, outs) ==
    IF Len(ins) # 1 THEN Raises(outs, "AssertionError", <<"Op: ", name>>)
    ELSE IF Len(outs) # 1 THEN Raises(outs, "AssertionError", <<"Op: ", name>>)
    ELSE IF ~isUnknown(ins[1])
    THEN IF ~ShapeEq(ins[1], outs[1])
         THEN Raises(outs, "NotImplementedError", <<"ExitOp propagateShapes ", name>>)
         ELSE Returns(<<mergeShape(outs[1], ins[1])>>)
    ELSE Raises(outs, "NotImplementedError",
                <<"ExitOp ", name, " propagateShapes unknown input shape">>)

\* NextIterationOp.propagateShapes
NextIterationPropagate(name, ins, outs) ==
    IF Len(ins) # 1 THEN Raises(outs, "AssertionError", <<>>)
    ELSE IF Len(outs) # 1 THEN Raises(outs, "AssertionError", <<>>)
    ELSE IF ~isUnknown(ins[1])
    THEN IF ~ShapeEq(ins[1], outs[1])
         THEN Raises(outs, "NotImplementedError",
                     <<"NextIterationOp propagateShapes ", name>>)
         ELSE Returns(<<mergeShape(outs[1], ins[1])>>)
    ELSE Raises(outs, "NotImplementedError",
                <<"NextIterationOp ", name, " propagateShapes unknown input ",
                  " shape">>)

\* SwitchOp.propagateShapes
SwitchPropagate(name, ins, outs) ==
    IF Len(ins) # 2 THEN Raises(outs, "AssertionError", <<>>)
    ELSE IF ~isScalar(ins[2]) THEN Raises(outs, "AssertionError", <<>>)
    ELSE IF Len(outs) # 2 THEN Raises(outs, "AssertionError", <<>>)
    ELSE IF isUnknown(ins[1])
    THEN Raises(outs, "NotImplementedError",
                <<"SwitchOp ", name, " propagateShapes unknown input shape">>)
    ELSE IF ~ShapeEq(ins[1], outs[1])
    THEN Raises(outs, "NotImplementedError", <<"SwitchOp propagateShapes ", name>>)
    ELSE LET outs1 == [outs EXCEPT ![1] = mergeShape(outs[1], ins[1])]
         IN IF ~ShapeEq(ins[1], outs1[2])
            THEN Raises(outs1, "NotImplementedError",
                        <<"SwitchOp propagateShapes ", name>>)
            ELSE Returns([outs1 EXCEPT ![2] = mergeShape(outs1[2], ins[1])])

RECURSIVE MergeInShape(_, _, _)
\* The loop of MergeOp.propagateShapes over the inputs from input i on,
\* in_shape being <<>> (None) or the first known shape met so far; the
\* value is the final in_shape, or "AssertionError" when a later known
\* shape cannot be broadcast together with it.
MergeInShape(ins, i, in_shape) ==
    IF i > Len(ins) THEN [in_shape |-> in_shape, failed |-> FALSE]
    ELSE IF isUnknown(ins[i]) THEN MergeInShape(ins, i + 1, in_shape)
    ELSE IF in_shape # <<>>
    THEN IF canBroadcastTogether(ins[i], in_shape[1])
         THEN MergeInShape(ins, i + 1, in_shape)
         ELSE [in_shape |-> in_shape, failed |-> TRUE]
    ELSE MergeInShape(ins, i + 1, <<ins[i]>>)

\* MergeOp.propagateShapes
MergePropagate(name, ins, outs) ==
    IF Len(ins) < 1 THEN Raises(outs, "AssertionError", <<>>)
    ELSE IF Len(outs) # 2 THEN Raises(outs, "AssertionError", <<>>)
    ELSE LET found == MergeInShape(ins, 1, <<>>)
         IN IF found.failed THEN Raises(outs, "AssertionError", <<>>)
            ELSE IF found.in_shape = <<>>
            THEN Raises(outs, "AttributeError",
                        <<"'NoneType' object has no attribute 'isUnknown'">>)
            ELSE IF ~isUnknown(found.in_shape[1])
            THEN IF ~ShapeEq(found.in_shape[1], outs[1])
                 THEN Raises(outs, "NotImplementedError",
                             <<"MergeOp propagateShapes ", name>>)
                 ELSE Returns([outs EXCEPT
                                  ![1] = mergeShape(outs[1], found.in_shape[1])])
            ELSE Raises(outs, "NotImplementedError",
                        <<"MergeOp ", name, " propagateShapes unknown input shape">>)

PassthroughKinds == {"EnterOp", "ExitOp", "NextIterationOp"}

\* The shapes a boolean selector or an index output may have.
SelectorShapes == {ScalarShape, <<Dim(1)>>}

\* The input shapes the ops are called with.
InShapeLists(kind) ==
    CASE kind \in PassthroughKinds ->
             {<<>>, <<ScalarShape, ScalarShape>>} \cup {<<s>> : s \in Shapes}
      [] kind = "SwitchOp" ->
             {<<ScalarShape>>} \cup {<<s, sel>> : s \in Shapes, sel \in SelectorShapes}
      [] kind = "MergeOp" ->
             {<<>>} \cup {<<s>> : s \in Shapes}
                 \cup UNION {{<<s, t>> : t \in {s, ScalarShape, <<NoneDim>>, <<Dim(1)>>}} :
                             s \in Shapes}

\* The output shapes the ops are called with.
OutShapeLists(kind, ins) ==
    CASE kind \in PassthroughKinds -> {<<>>} \cup {<<s>> : s \in Shapes}
      [] kind = "SwitchOp" ->
             {<<ScalarShape>>}
                 \cup UNION {{<<a, b>> : b \in {a, ScalarShape} \cup
                                (IF ins # <<>> THEN {ins[1]} ELSE {})} :
                             a \in Shapes}
      [] kind = "MergeOp" -> {<<ScalarShape>>} \cup {<<a, ScalarShape>> : a \in Shapes}

InitShapes ==
    /\ BuilderIdle
    /\ RecoveryIdle
    /\ CanVisitIdle
    /\ FlopsIdle
    /\ ps_kind \in PassthroughKinds \cup {"SwitchOp", "MergeOp"}
    /\ ps_name = "while/" \o ps_kind
    /\ ps_in \in InShapeLists(ps_kind)
    /\ ps_out_before \in OutShapeLists(ps_kind, ps_in)
    /\ ps_out = ps_out_before
    /\ ps_done = FALSE
    /\ ps_failure = NoFailure

\* The end of a call of propagateShapes: the output shapes are as the call
\* left them, and what it raised is kept.
EndPropagate(r) ==
    /\ ~ps_done
    /\ ps_out' = r.outputs
    /\ ps_failure' = r.failure
    /\ ps_done' = TRUE
    /\ UNCHANGED <<ps_kind, ps_name, ps_in, ps_out_before>>
    /\ UNCHANGED notShapes

PropagateEnter ==
    /\ ps_kind = "EnterOp"
    /\ EndPropagate(EnterPropagate(ps_name, ps_in, ps_out))

PropagateExit ==
    /\ ps_kind = "ExitOp"
    /\ EndPropagate(ExitPropagate(ps_name, ps_in, ps_out))

PropagateNextIteration ==
    /\ ps_kind = "NextIterationOp"
    /\ EndPropagate(NextIterationPropagate(ps_name, ps_in, ps_out))

PropagateSwitch ==
    /\ ps_kind = "SwitchOp"
    /\ EndPropagate(SwitchPropagate(ps_name, ps_in, ps_out))

PropagateMerge ==
    /\ ps_kind = "MergeOp"
    /\ EndPropagate(MergePropagate(ps_name, ps_in, ps_out))

NextShapes ==
    \/ PropagateEnter
    \/ PropagateExit
    \/ PropagateNextIteration
    \/ PropagateSwitch
    \/ PropagateMerge

SpecShapes == InitShapes /\ [][NextShapes]_vars


(***************************************************************************)
(* ControlBlockOp.calcAlgFlops (ops/ctrl_ops.py).                          *)
(***************************************************************************)
\* Largest number of member ops of a block, and largest number of elements
\* of a member's output.
MaxMembers == 2
MaxElems == 2

\* The control-flow marker ops, whose calcAlgFlops returns 0.
MarkerKinds == {"EnterOp", "ExitOp", "LoopConditionOp", "MergeOp",
                "NextIterationOp", "SwitchOp"}

\* calcAlgFlops of a member op: 0 for the marker ops; a pointwise op costs
\* one operation per element of its output.
OpCalcAlgFlops(op) == IF op.kind \in MarkerKinds THEN 0 ELSE op.elems

RECURSIVE GraphCalcAlgFlops(_)
\* Graph.calcAlgFlops: the sum of the costs of the ops the graph owns.
GraphCalcAlgFlops(ops) ==
    IF ops = <<>> THEN 0
    ELSE OpCalcAlgFlops(Head(ops)) + GraphCalcAlgFlops(Tail(ops))

\* sympy.Symbol(name): an expression that is one symbol; two symbols are
\* the same when their names are.
Symbol(name) == [coef |-> 1, symbols |-> {name}]

\* expr * n for a number n: the product with 0 is the number 0.
Times(expr, n) ==
    IF n = 0 THEN [coef |-> 0, symbols |-> {}]
    ELSE [coef |-> expr.coef * n, symbols |-> expr.symbols]

\* A plausible slip: the name of the symbol does not hold the block's name.
LoopIterName_Fixed(name) == "iters"

\* '{}::iters'.format(self.name)
LoopIterName(name) == name \o "::iters"

\* ControlBlockOp.calcAlgFlops
calcAlgFlops(block, members) ==
    IF block.root_kind # "LoopConditionOp"
    THEN [done |-> TRUE, loop_iters |-> <<>>, value |-> <<>>,
          failure |-> <<[exc |-> "NotImplementedError",
                         msg |-> <<"ControlBlockOp ", block.name,
                                   " has unknown _root_op type ", block.root_kind>>]>>]
    ELSE LET loop_iters == Symbol(LoopIterName(block.name))
         IN [done |-> TRUE, loop_iters |-> <<loop_iters>>,
             value |-> <<Times(loop_iters, GraphCalcAlgFlops(members))>>,
             failure |-> NoFailure]

NotCalled == [done |-> FALSE, loop_iters |-> <<>>, value |-> <<>>, failure |-> NoFailure]

\* The blocks: named after their control op, rooted at an op of some class.
FlopsBlocks ==
    {[name |-> BlockName(op), root_kind |-> KindOf(r)] : op \in {3, 4, 10}, r \in {4, 5}}

\* The member ops: a marker op or a pointwise op, with the size of its output.
FlopsMembers ==
    {[kind |-> k, elems |-> n] : k \in {"MergeOp", "AddOp"}, n \in 1..MaxElems}

InitFlops ==
    /\ BuilderIdle
    /\ RecoveryIdle
    /\ CanVisitIdle
    /\ ShapesIdle
    /\ fl_block \in [1..2 -> FlopsBlocks]
    /\ fl_members \in UNION {[1..n -> FlopsMembers] : n \in 0..MaxMembers}
    /\ fl_out = [i \in 1..2 |-> NotCalled]

\* A call of calcAlgFlops on one of the two blocks.
CallCalcAlgFlops ==
    /\ \E i \in 1..2 :
           /\ ~fl_out[i].done
           /\ fl_out' = [fl_out EXCEPT ![i] = calcAlgFlops(fl_block[i], fl_members)]
    /\ UNCHANGED <<fl_block, fl_members>>
    /\ UNCHANGED notFlops

NextFlops == CallCalcAlgFlops

SpecFlops == InitFlops /\ [][NextFlops]_vars


(***************************************************************************)
(* The builder functions constant and concat (api/ops.py).                 *)
(***************************************************************************)
\* Largest number of tensors in input_list.
MaxConcatInputs == 2

\* The process-wide default graph and a graph the caller has made.
GraphIds == {"default", "g1"}

get_default_graph == "default"

\* The argument graph=None.
None == <<>>

\* The graph a builder works on (lines 11-12 and 23-24).
GraphOrDefault(graph) == IF graph = None THEN get_default_graph ELSE graph[1]

\* Values of the argument axis: the class of the value and its repr.
AxisValues ==
    {[type |-> "int", repr |-> "0"], [type |-> "int", repr |-> "1"],
     [type |-> "bool", repr |-> "True"], [type |-> "float", repr |-> "1.0"],
     [type |-> "str", repr |-> "'0'"], [type |-> "NoneType", repr |-> "None"]}

\* isinstance(axis, int): bool is a subclass of int.
isinstanceInt(axis) == axis.type \in {"int", "bool"}

\* What a builder call leaves behind: the graphs, the exception raised if
\* any, the name of the tensor returned if any, and the names of the input
\* tensors hooked up to the op it created.
BuilderOutcome(graphs, raised, out, op_inputs) ==
    [graphs |-> graphs, raised |-> raised, out |-> out, op_inputs |-> op_inputs]

\* Graph.addOp on one of the graphs: a name collision is a hard error.
graphAddOp(graphs, g, name) ==
    IF name \in graphs[g]
    THEN BuilderOutcome(graphs, <<"name collision", name>>, <<>>, <<>>)
    ELSE BuilderOutcome([graphs EXCEPT ![g] = addOp(@, name)], <<>>, <<>>, <<>>)

\* constant (lines 10-20).
constant(graphs, name, graph) ==
    LET added == graphAddOp(graphs, GraphOrDefault(graph), name)
    IN IF added.raised # <<>> THEN added
       ELSE BuilderOutcome(added.graphs, <<>>, <<name>>, <<>>)

\* '{}:axis'.format(name)
AxisName(name) == name \o ":axis"

\* concat (lines 22-39); the constant that holds the axis is built by a
\* call of constant that passes no graph (line 37).
concat(graphs, name, input_list, axis, graph) ==
    IF ~isinstanceInt(axis)
    THEN BuilderOutcome(graphs,
             <<"NotImplementedError",
               "cougr.concat axis yet unsupported type: ", axis.type>>,
             <<>>, <<>>)
    ELSE LET added == graphAddOp(graphs, GraphOrDefault(graph), name)
         IN IF added.raised # <<>> THEN added
            ELSE LET axis_tensor == constant(added.graphs, AxisName(name), None)
                 IN IF axis_tensor.raised # <<>> THEN axis_tensor
                    ELSE BuilderOutcome(axis_tensor.graphs, <<>>, <<name>>,
                                        input_list \o axis_tensor.out)

\* The names the ops of the two graphs and of the calls range over.
BuilderNames == {"x", "c", "c:axis"}

ConcatNames == {"c", "d"}

\* The calls of concat: the input tensors are outputs of ops that exist.
ConcatCalls(graphs) ==
    {call \in [name : ConcatNames,
                input_list : UNION {[1..n -> {"x"}] : n \in 0..MaxConcatInputs},
                axis : AxisValues,
                graph : {None} \cup {<<g>> : g \in GraphIds}] :
        call.input_list # <<>> => \E g \in GraphIds : "x" \in graphs[g]}

InitBuilder ==
    /\ RecoveryIdle
    /\ CanVisitIdle
    /\ ShapesIdle
    /\ FlopsIdle
    /\ bg_graphs \in [GraphIds -> SUBSET BuilderNames]
    /\ bg_before = bg_graphs
    /\ bg_call \in ConcatCalls(bg_graphs)
    /\ bg_out = <<>>

\* The call of concat.
CallConcat ==
    /\ bg_out = <<>>
    /\ LET r == concat(bg_graphs, bg_call.name, bg_call.input_list,
                       bg_call.axis, bg_call.graph)
       IN /\ bg_graphs' = r.graphs
          /\ bg_out' = <<[raised |-> r.raised, out |-> r.out,
                          op_inputs |-> r.op_inputs]>>
    /\ UNCHANGED <<bg_before, bg_call>>
    /\ UNCHANGED notBuilder

NextBuilder == CallConcat

SpecBuilder == InitBuilder /\ [][NextBuilder]_vars

(***************************************************************************)
(* Properties of region recovery.                                          *)
(***************************************************************************)
SeqRange(q) == {q[i] : i \in 1..Len(q)}

Wired == pc \notin {"idle", "wire", "scan"}

BlockSet == SeqRange(blocks)

BlocksRootedAt(op) == {i \in 1..Len(blocks) : blocks[i].root_op = op}

\* Every output tensor of the ops of a set.
OutputsOf(S) == UNION {{Tensor(op, i - 1) : i \in 1..NumOutputs(op)} : op \in S}

\* Every op that consumes an output of an op of a set.
ConsumersOfOutputs(S) == UNION {ConsumerSet(t) : t \in OutputsOf(S)}

\* The loop of the end-to-end scenario: enter and cond feed switch, cond is
\* fed by merge, merge by the placeholder and by next, next by switch.
SpecLoopWired ==
    /\ Wired
    /\ num_ops = 6
    /\ inputs[2] = <<Tensor(1, 0)>>
    /\ inputs[3] = <<Tensor(1, 0), Tensor(6, 0)>>
    /\ inputs[4] = <<Tensor(3, 0)>>
    /\ inputs[5] = <<Tensor(2, 0), Tensor(4, 0)>>
    /\ inputs[6] = <<Tensor(5, 1)>>

\* Every op that produces an input of an op of a set.
ProducersOfInputs(S) ==
    UNION {{Producer(inputs[op][i]) : i \in 1..Len(inputs[op])} : op \in S}

RECURSIVE BackwardReach(_, _)
\* The least set that holds X and, for each of its ops other than entry and
\* next-iteration ops, the producers of its inputs, the control op c aside.
BackwardReach(X, c) ==
    LET through == {op \in X : KindOf(op) \notin {"EnterOp", "NextIterationOp"}}
        new == ProducersOfInputs(through) \ (X \cup {c})
    IN IF new = {} THEN X ELSE BackwardReach(X \cup new, c)

RECURSIVE ForwardReach(_, _)
\* The least set that holds Y and, for each of its ops other than exit ops,
\* the consumers of its outputs, the ops of V aside.
ForwardReach(Y, V) ==
    LET through == {op \in Y : KindOf(op) # "ExitOp"}
        new == ConsumersOfOutputs(through) \ (Y \cup V)
    IN IF new = {} THEN Y ELSE ForwardReach(Y \cup new, V)

\* The ops the backward walk of control op c visits.
BackwardMembers(c) == BackwardReach(ConsumersOfOutputs({c}) \ {c}, c)

\* The ops the forward walk of control op c visits.
ForwardMembers(c) ==
    LET V == BackwardMembers(c) \cup {c}
        seeds == ConsumersOfOutputs(ConsumersOfOutputs({c})
                     \cup {op \in BackwardMembers(c) : KindOf(op) = "MergeOp"})
    IN ForwardReach(seeds \ V, V)

\* C1: every control op whose walk has succeeded has exactly one
\* ControlBlockOp, rooted at it, whose members are the ops the two walks
\* visited and the control op itself (and a control op whose walk has not
\* finished has none): the ops reached backward from its switch consumers
\* up to entry and next-iteration ops, and the ops reached forward from the
\* consumers of those switches and of the merges met, up to exit ops; on the loop of the end-to-end scenario the result is
\* the single block rooted at cond with members cond, switch, merge, enter
\* and next, without the placeholder.
C1_OneBlockPerControlOp ==
    /\ Wired =>
         /\ Len(blocks) = ctrl_idx - 1
         /\ \A j \in 1..Len(control_ops) :
                Cardinality(BlocksRootedAt(control_ops[j])) =
                    IF j < ctrl_idx THEN 1 ELSE 0
    /\ (pc = "seed" /\ blocks # <<>>) =>
         LET b == blocks[Len(blocks)]
         IN /\ b.root_op = control_ops[ctrl_idx - 1]
            /\ b.ops_by_name = visited_ops
            /\ b.root_op \in b.ops_by_name
            /\ bwd_visited \subseteq b.ops_by_name
            /\ b.name = OpName(b.root_op) \o "_block"
    /\ \A b \in SeqRange(blocks) :
           b.ops_by_name =
               {b.root_op} \cup BackwardMembers(b.root_op)
                   \cup ForwardMembers(b.root_op)
    /\ (SpecLoopWired /\ pc = "done") =>
         /\ Len(returned[1].blocks) = 1
         /\ returned[1].blocks[1].root_op = 4
         /\ returned[1].blocks[1].ops_by_name = {4, 5, 3, 2, 6}

C1_Witness ==
    /\ SpecLoopWired
    /\ pc = "done"
    /\ Len(blocks) = 1

\* Produced by a member and consumed only by members.
WhollyInternal(t, b) ==
    /\ Producer(t) \in b.ops_by_name
    /\ ConsumerSet(t) \subseteq b.ops_by_name

\* C2: no tensor produced by a member of a block and consumed only by its
\* members is among the block's inputs or outputs.
C2_NoInternalTensorAtBoundary ==
    \A b \in BlockSet :
        \A t \in BlockInputs(b) \cup BlockOutputs(b) : ~WhollyInternal(t, b)

\* C3: a tensor a member consumes and a non-member produces is among the
\* block's inputs; a tensor a member produces and some non-member consumes
\* is among the block's outputs.
C3_BoundaryTensorsListed ==
    \A b \in BlockSet :
        /\ \A op \in b.ops_by_name :
               \A i \in 1..Len(inputs[op]) :
                   Producer(inputs[op][i]) \notin b.ops_by_name
                       => inputs[op][i] \in BlockInputs(b)
        /\ \A t \in OutputsOf(b.ops_by_name) :
               (ConsumerSet(t) \ b.ops_by_name # {}) => t \in BlockOutputs(b)

C3_Witness ==
    \E b \in BlockSet :
        /\ \E op \in b.ops_by_name :
               \E i \in 1..Len(inputs[op]) :
                   Producer(inputs[op][i]) \notin b.ops_by_name
        /\ \E t \in OutputsOf(b.ops_by_name) : ConsumerSet(t) \ b.ops_by_name # {}

\* The conditions under which recovery must fail at the next step.
MalformedFanOut ==
    /\ pc = "seed"
    /\ ctrl_idx <= Len(control_ops)
    /\ \E c \in ConsumersOfOutputs({ctrl_op}) : KindOf(c) # "SwitchOp"

NestedControlOpDequeued ==
    \/ /\ pc = "bwd"
       /\ bwd_frontier_ops # <<>>
       /\ Head(bwd_frontier_ops) \notin visited_ops
       /\ Head(bwd_frontier_ops) # ctrl_op
       /\ KindOf(Head(bwd_frontier_ops)) = "LoopConditionOp"
    \/ /\ pc = "fwd"
       /\ fwd_frontier_ops # <<>>
       /\ Head(fwd_frontier_ops) \notin visited_ops
       /\ Head(fwd_frontier_ops) # ctrl_op
       /\ KindOf(Head(fwd_frontier_ops)) = "LoopConditionOp"

\* C4: a non-switch consumer of a control op's output, or a not yet visited
\* other control op taken from either frontier, makes the very next step
\* fail; a failure builds no block for the control op under analysis, ends
\* the function, and no graph is returned; a returned graph has a block for
\* every control op.
C4_FailureIsFatal ==
    /\ [][(MalformedFanOut \/ NestedControlOpDequeued) =>
            /\ failure' # NoFailure
            /\ pc' = "failed"
            /\ blocks' = blocks
            /\ returned' = NoGraph]_vars
    /\ [][failure = NoFailure]_vars
    /\ [](failure # NoFailure =>
            /\ returned = NoGraph
            /\ BlocksRootedAt(ctrl_op) = {})
    /\ [](returned # NoGraph =>
            \A j \in 1..Len(control_ops) :
                \E i \in 1..Len(returned[1].blocks) :
                    returned[1].blocks[i].root_op = control_ops[j])

C4_Witness ==
    /\ failure # NoFailure
    /\ Len(blocks) = 1
    /\ returned = NoGraph

\* C6: the message of every failure of region recovery holds the name of
\* the op the failing check looked at, and the message of every failure of
\* propagateShapes holds the name of the op it was called on.
C6_FailureNamesOp ==
    /\ failure # NoFailure => OpName(failure[1].op) \in SeqRange(failure[1].msg)
    /\ ps_failure # NoFailure => ps_name \in SeqRange(ps_failure[1].msg)

MergesOf(S) == {op \in S : KindOf(op) = "MergeOp"}

\* C9 as stated: the forward walk starts from the consumers of the outputs
\* of the merge ops the backward walk found, and from nothing else.
C9_ForwardSeedFromMergesOnly ==
    pc = "fwd" => SeqRange(fwd_seed) = ConsumersOfOutputs(MergesOf(bwd_visited))

\* C9 as amended: the forward walk starts from the consumers of the outputs
\* of the switch ops the control op feeds and of the merge ops the backward
\* walk found, and from nothing else.
C9_ForwardSeedFromSwitchesAndMerges ==
    pc = "fwd" =>
        SeqRange(fwd_seed) =
            ConsumersOfOutputs(ConsumersOfOutputs({ctrl_op})
                                   \cup MergesOf(bwd_visited))

C9_Witness ==
    /\ pc = "fwd"
    /\ MergesOf(bwd_visited) # {}
    /\ SeqRange(fwd_seed) \ ConsumersOfOutputs(MergesOf(bwd_visited)) # {}

\* C10: a member none of whose outputs has a consumer is a sink of its
\* block, and so is every member with an output a non-member consumes.
C10_TerminalMemberIsSink ==
    \A b \in BlockSet :
        \A op \in b.ops_by_name :
            (\/ ConsumersOfOutputs({op}) = {}
             \/ ConsumersOfOutputs({op}) \ b.ops_by_name # {})
                => op \in b.sinks

\* The backward walk is about to take a not yet visited entry or
\* next-iteration op from its frontier.
BackwardAtBoundary ==
    /\ pc = "bwd"
    /\ bwd_frontier_ops # <<>>
    /\ Head(bwd_frontier_ops) \notin visited_ops
    /\ KindOf(Head(bwd_frontier_ops)) \in {"EnterOp", "NextIterationOp"}

\* The forward walk is about to take a not yet visited exit op.
ForwardAtBoundary ==
    /\ pc = "fwd"
    /\ fwd_frontier_ops # <<>>
    /\ Head(fwd_frontier_ops) \notin visited_ops
    /\ KindOf(Head(fwd_frontier_ops)) = "ExitOp"

\* C11: the step of the backward walk that takes a not yet visited entry
\* or next-iteration op adds it to the visited ops and only removes it from
\* the frontier, so that no producer of its inputs is enqueued; the step
\* of the forward walk that takes a not yet visited exit op adds it to the
\* visited ops and only removes it from the frontier, so that no consumer
\* of its outputs is enqueued; neither step fails.
C11_BoundaryOpsNotExpanded ==
    /\ [][BackwardAtBoundary =>
            /\ visited_ops' = visited_ops \cup {Head(bwd_frontier_ops)}
            /\ bwd_frontier_ops' = Tail(bwd_frontier_ops)
            /\ frontier_ops' = frontier_ops
            /\ pc' = "bwd"]_vars
    /\ [][ForwardAtBoundary =>
            /\ visited_ops' = visited_ops \cup {Head(fwd_frontier_ops)}
            /\ fwd_frontier_ops' = Tail(fwd_frontier_ops)
            /\ pc' = "fwd"]_vars

\* The forward walk goes on after an entry op, a next-iteration op and an
\* exit op were visited: the entry op and the next-iteration op have inputs
\* whose producers were not visited, the exit op has consumers, none of
\* them visited or waiting in the frontier.
C11_Witness ==
    /\ pc = "fwd"
    /\ \E e \in bwd_visited :
           /\ KindOf(e) = "EnterOp"
           /\ ProducersOfInputs({e}) # {}
           /\ ProducersOfInputs({e}) \cap visited_ops = {}
    /\ \E n \in bwd_visited :
           /\ KindOf(n) = "NextIterationOp"
           /\ ProducersOfInputs({n}) # {}
           /\ ProducersOfInputs({n}) \cap visited_ops = {}
    /\ \E x \in visited_ops \ bwd_visited :
           /\ KindOf(x) = "ExitOp"
           /\ ConsumersOfOutputs({x}) # {}
           /\ ConsumersOfOutputs({x}) \cap
                  (visited_ops \cup SeqRange(fwd_frontier_ops)) = {}


\* The dataflow cycle merge -> switch -> next-iteration -> merge.
LoopCycleWired ==
    /\ Wired
    /\ Tensor(6, 0) \in SeqRange(inputs[3])
    /\ Tensor(3, 0) \in SeqRange(inputs[5])
    /\ inputs[6] = <<Tensor(5, 1)>>

\* A step of the backward or of the forward loop that goes on with the loop.
BackwardLoopStep == pc = "bwd" /\ pc' = "bwd"

ForwardLoopStep == pc = "fwd" /\ pc' = "fwd"

\* C12: a backward walk that has begun ends, with its frontier empty or
\* with a failure, and so does a forward walk; within a walk the visited
\* ops only grow, and a step adds an op to them or enqueues anything only
\* when the op it took from the frontier was not visited before, which
\* the step then makes it: no op is added or expanded twice in a phase.
C12_WalksTerminate ==
    /\ (pc = "bwd") ~> (pc = "failed" \/ bwd_frontier_ops = <<>>)
    /\ (pc = "fwd") ~> (pc = "failed" \/ fwd_frontier_ops = <<>>)
    /\ [][BackwardLoopStep =>
            /\ visited_ops \subseteq visited_ops'
            /\ (visited_ops' # visited_ops
                    \/ bwd_frontier_ops' # Tail(bwd_frontier_ops)) =>
                   /\ Head(bwd_frontier_ops) \notin visited_ops
                   /\ visited_ops' = visited_ops \cup {Head(bwd_frontier_ops)}]_vars
    /\ [][ForwardLoopStep =>
            /\ visited_ops \subseteq visited_ops'
            /\ (visited_ops' # visited_ops
                    \/ fwd_frontier_ops' # Tail(fwd_frontier_ops)) =>
                   /\ Head(fwd_frontier_ops) \notin visited_ops
                   /\ visited_ops' = visited_ops \cup {Head(fwd_frontier_ops)}]_vars

\* On a graph with the dataflow cycle, whose merge, switch and
\* next-iteration ops the backward walk has visited, the forward walk has
\* enqueued, for the second time, an op that it has itself visited.
C12_Witness ==
    /\ LoopCycleWired
    /\ pc = "fwd"
    /\ {3, 5, 6} \subseteq bwd_visited
    /\ \E op \in visited_ops \ bwd_visited : op \in SeqRange(fwd_frontier_ops)

\* The outcome of the walk of control op c as the wiring alone decides it:
\* the sets below are built from sets of producers and consumers and read
\* neither a frontier nor the order of enumeration.
OtherControlOps(S, c) == {op \in S \ {c} : KindOf(op) = "LoopConditionOp"}

WiringFails(c) ==
    \/ \E op \in ConsumersOfOutputs({c}) : KindOf(op) # "SwitchOp"
    \/ OtherControlOps(BackwardMembers(c), c) # {}
    \/ OtherControlOps(ForwardMembers(c), c) # {}

WiringMembers(c) == {c} \cup BackwardMembers(c) \cup ForwardMembers(c)

\* C13: whatever the order in which the consumers are enumerated, and with
\* it the order in which the frontier entries are taken, the walk of a
\* control op fails exactly when the wiring says so and otherwise builds
\* the block whose members the wiring says: two runs on the same wiring end
\* alike.
C13_OutcomeIndependentOfOrder ==
    /\ failure # NoFailure => WiringFails(ctrl_op)
    /\ \A j \in 1..Len(blocks) :
           /\ blocks[j].root_op = control_ops[j]
           /\ ~WiringFails(control_ops[j])
           /\ blocks[j].ops_by_name = WiringMembers(control_ops[j])
    /\ (Wired /\ failure = NoFailure /\ pc # "done") =>
           \A j \in 1..Len(control_ops) :
               (j < ctrl_idx) => ~WiringFails(control_ops[j])
    /\ pc = "done" =>
           /\ Len(blocks) = Len(control_ops)
           /\ \A j \in 1..Len(control_ops) : ~WiringFails(control_ops[j])

\* A block was built, and another walk has failed, on a graph whose
\* consumers are not enumerated in the order of hook-up: some tensor of a
\* member of the block has two consumers that come the other way round.
C13_Witness ==
    /\ consumer_order # 1
    /\ failure # NoFailure
    /\ Len(blocks) = 1
    /\ \E t \in OutputsOf(blocks[1].ops_by_name) :
           /\ Cardinality(ConsumerSet(t)) >= 2
           /\ Consumers(t) # SortedSeq(ConsumerSet(t))

(***************************************************************************)
(* Properties of the builder function concat.                              *)
(***************************************************************************)
ConcatMade == bg_out # <<>>

\* The call names a graph of its own, which is not the default graph.
ExplicitGraphGiven == bg_call.graph # None /\ bg_call.graph[1] # get_default_graph

\* C14: a call of concat that names a graph of its own and succeeds has
\* registered the concat op and the constant op of the axis in that graph,
\* has registered nothing else there, and has left the default graph as it
\* was; a call whose axis is no integer raises and leaves both graphs as
\* they were.
C14_ConcatUsesExplicitGraph ==
    ConcatMade =>
        /\ (ExplicitGraphGiven /\ bg_out[1].raised = <<>>) =>
               /\ bg_graphs[bg_call.graph[1]] =
                      bg_before[bg_call.graph[1]]
                          \cup {bg_call.name, AxisName(bg_call.name)}
               /\ bg_graphs[get_default_graph] = bg_before[get_default_graph]
        /\ ~isinstanceInt(bg_call.axis) =>
               /\ bg_out[1].raised # <<>>
               /\ bg_graphs = bg_before

(***************************************************************************)
(* Properties of MergeOp.canVisit.                                         *)
(***************************************************************************)
\* C7: canVisit returns true exactly when the producer of at least one of
\* the merge op's input tensors is in the visited set.
C7_CanVisitIffSomeProducerVisited ==
    cv_result # <<>> =>
        (cv_result[1] <=>
            \E i \in 1..Len(cv_inputs) : Producer(cv_inputs[i]) \in cv_visited)

\* Two inputs with different producers, only one of which was visited.
C7_Witness ==
    /\ cv_result = <<TRUE>>
    /\ Len(cv_inputs) = 2
    /\ Producer(cv_inputs[1]) \in cv_visited
    /\ Producer(cv_inputs[2]) \notin cv_visited


(***************************************************************************)
(* Properties of propagateShapes.                                          *)
(***************************************************************************)
\* No known dimension of a is contradicted by b, rank included.
Compatible(a, b) ==
    /\ Len(a) = Len(b)
    /\ \A i \in 1..Len(a) : a[i] = NoneDim \/ b[i] = NoneDim \/ a[i] = b[i]

\* C5: on an entry, exit or next-iteration op with one input and one
\* output, a fully known input shape that the output shape does not
\* conflict with makes propagateShapes succeed and leave the output shape
\* equal to the input shape; an unknown input shape makes it fail.
C5_PassthroughFillsOutput ==
    (/\ ps_done
     /\ ps_kind \in PassthroughKinds
     /\ Len(ps_in) = 1
     /\ Len(ps_out_before) = 1) =>
        /\ (~isUnknown(ps_in[1]) /\ Compatible(ps_out_before[1], ps_in[1])) =>
               (ps_failure = NoFailure /\ ps_out = <<ps_in[1]>>)
        /\ isUnknown(ps_in[1]) => ps_failure # NoFailure


(***************************************************************************)
(* Properties of ControlBlockOp.calcAlgFlops.                              *)
(***************************************************************************)
RECURSIVE SumTo(_, _)
\* f[1] + ... + f[n]
SumTo(f, n) == IF n = 0 THEN 0 ELSE f[n] + SumTo(f, n - 1)

\* The summed flop cost C of the members.
MemberCost ==
    SumTo([i \in 1..Len(fl_members) |->
              IF fl_members[i].kind = "AddOp" THEN fl_members[i].elems ELSE 0],
          Len(fl_members))

\* C8: a block rooted at a loop-condition op costs C times its iteration
\* symbol, the symbol being named '<block name>::iters', so that two blocks
\* use the same symbol exactly when they have the same name; a block rooted
\* at another op gets no cost and the unsupported-root error.
C8_LoopCostIsItersTimesC ==
    /\ \A i \in 1..Len(fl_out) :
           fl_out[i].done =>
               IF fl_block[i].root_kind = "LoopConditionOp"
               THEN /\ fl_out[i].failure = NoFailure
                    /\ fl_out[i].loop_iters[1].symbols =
                           {fl_block[i].name \o "::iters"}
                    /\ fl_out[i].value[1].coef = MemberCost
                    /\ fl_out[i].value[1].symbols =
                           IF MemberCost = 0 THEN {}
                           ELSE {fl_block[i].name \o "::iters"}
               ELSE /\ fl_out[i].value = <<>>
                    /\ fl_out[i].failure # NoFailure
                    /\ fl_out[i].failure[1].exc = "NotImplementedError"
    /\ \A i, j \in 1..Len(fl_out) :
           (fl_out[i].loop_iters # <<>> /\ fl_out[j].loop_iters # <<>>) =>
               (fl_out[i].loop_iters = fl_out[j].loop_iters
                    <=> fl_block[i].name = fl_block[j].name)

\* Two loops with different names and a cost that is not 0 were costed.
C8_Witness ==
    /\ fl_out # <<>>
    /\ fl_out[1].value # <<>>
    /\ fl_out[2].value # <<>>
    /\ fl_block[1].name # fl_block[2].name
    /\ MemberCost > 0

=============================================================================
